---- MODULE Spec2Model ----
(***************************************************************************)
(* The per-user sliding-window rate limiter and the per-guild counting     *)
(* game of the Discord bot, in its two variants:                           *)
(*   "ticket"    = DiscordAiBot + counting system + ticket system 1.1.0    *)
(*   "companion" = DiscordAiCompanion (3)                                  *)
(* Handlers are asyncio coroutines: the code between two awaits runs       *)
(* atomically, every await of a gateway call is a suspension point at      *)
(* which other handlers run, and a gateway call can raise.                 *)
(***************************************************************************)
EXTENDS Integers, Sequences, FiniteSets, TLC

\* ---------------------------------------------------------------- constants
RATE_LIMIT_REQUESTS == 10
RATE_LIMIT_WINDOW == 60
\* last_user_id written by a wrong-number reset ("none")
NoUser == 0
\* key used for a message without a guild (companion), and the absent guild
NoGuild == 0

\* ------------------------------------------------------------------- bounds
MaxActors == 2
MaxNumber == 3
\* the clock advances in steps of TickSize, at most MaxTicks times
TickSize == 30
MaxTicks == 2
MaxCount == 100

Variants == {"ticket", "companion"}
Actors == 1..MaxActors
\* the actors that chat with the bot, the guilds, the channels of a guild and
\* the handlers that can be in flight at once
Chatters == {1}
Guilds == {1}
OtherGuilds == {2}
Channels == {1, 2}
Tasks == {1, 2}
Numbers == 0..MaxNumber

\* variant, now, user_rate_limits, counting_data and tasks are the program's
\* state; admitted, hist and script are histories kept for the properties
VARIABLES variant, now, user_rate_limits, counting_data, tasks, admitted,
          hist, script

vars == <<variant, now, user_rate_limits, counting_data, tasks, admitted,
          hist, script>>

\* ------------------------------------------------------------- rate limiter
\* mutant: the comparison inverted, so the stale timestamps are the ones kept
FreshInverted(ts, t) == t - ts >= RATE_LIMIT_WINDOW

\* mutant: timestamps are dropped after half the window
FreshHalfWindow(ts, t) == 2 * (t - ts) < RATE_LIMIT_WINDOW

\* now - t < timedelta(seconds=RATE_LIMIT_WINDOW)
Fresh(ts, t) == t - ts < RATE_LIMIT_WINDOW

\* mutant: nothing is pruned
PrunedNothing(log, user_id, t) == log

\* if user_id in user_rate_limits: keep only the fresh timestamps
Pruned(log, user_id, t) ==
    IF user_id \in DOMAIN log
    THEN [log EXCEPT ![user_id] = SelectSeq(@, LAMBDA ts : Fresh(ts, t))]
    ELSE log

\* user_rate_limits.get(user_id, [])
Requests(log, user_id) == IF user_id \in DOMAIN log THEN log[user_id] ELSE <<>>

\* mutant: the quota test off by one
OverQuotaOffByOne(reqs) == Len(reqs) > RATE_LIMIT_REQUESTS

\* len(...) >= RATE_LIMIT_REQUESTS
OverQuota(reqs) == Len(reqs) >= RATE_LIMIT_REQUESTS

\* mutant: one list of timestamps shared by all users
RecordedForAll(log, user_id, t) ==
    [u \in DOMAIN log \cup {user_id} |->
        Append(IF u \in DOMAIN log THEN log[u] ELSE <<>>, t)]

\* user_rate_limits.setdefault(user_id, []).append(now)
Recorded(log, user_id, t) ==
    IF user_id \in DOMAIN log
    THEN [log EXCEPT ![user_id] = Append(@, t)]
    ELSE log @@ (user_id :> <<t>>)

\* mutant: the quota test made on the count before pruning
is_rate_limited_unpruned_count(log, user_id, t) ==
    LET pruned == Pruned(log, user_id, t) IN
    IF OverQuota(Requests(log, user_id))
    THEN [limited |-> TRUE, log |-> pruned]
    ELSE [limited |-> FALSE, log |-> Recorded(pruned, user_id, t)]

\* mutant: the rejected attempt is recorded too
is_rate_limited_charging(log, user_id, t) ==
    LET pruned == Pruned(log, user_id, t) IN
    [limited |-> OverQuota(Requests(pruned, user_id)),
     log |-> Recorded(pruned, user_id, t)]

\* RateLimiter.is_rate_limited: the value returned and the log it leaves
is_rate_limited(log, user_id, t) ==
    LET pruned == Pruned(log, user_id, t) IN
    IF OverQuota(Requests(pruned, user_id))
    THEN [limited |-> TRUE, log |-> pruned]
    ELSE [limited |-> FALSE, log |-> Recorded(pruned, user_id, t)]

\* ------------------------------------------------------------ counting game
\* mutant: any positive number starts a game
StartsGameAnyPositive(number) == number >= 1

\* if number == 1 (no game yet)
StartsGame(number) == number = 1

\* mutant: a started game stores no author
StartedEntryNoAuthor(msg) ==
    [current_number |-> 1, last_user_id |-> NoUser, channel_id |-> msg.channel]

\* the entry written when a game starts
StartedEntry(msg) ==
    [current_number |-> 1, last_user_id |-> msg.author, channel_id |-> msg.channel]

\* mutant: the current number expected again instead of the next one
IsWrongNumberOffByOne(entry, msg) == msg.number # entry.current_number

\* number != data['current_number'] + 1
IsWrongNumberOrOtherChannel(entry, msg) ==
    msg.number # entry.current_number + 1 \/ msg.channel # entry.channel_id

IsWrongNumber(entry, msg) == msg.number # entry.current_number + 1

\* mutant: the wrong-number test made first, the double post seen only after it
IsDoublePostAfterNumber(entry, msg) ==
    entry.last_user_id = msg.author /\ ~IsWrongNumber(entry, msg)

\* data['last_user_id'] == message.author.id
IsDoublePostNever(entry, msg) == FALSE

IsDoublePost(entry, msg) == entry.last_user_id = msg.author

\* the entry written by a wrong-number reset
ResetEntryAtOne(msg) ==
    [current_number |-> 1, last_user_id |-> NoUser, channel_id |-> msg.channel]

ResetEntryKeepsAuthor(msg) ==
    [current_number |-> 0, last_user_id |-> msg.author, channel_id |-> msg.channel]

ResetEntry(msg) ==
    [current_number |-> 0, last_user_id |-> NoUser, channel_id |-> msg.channel]

\* mutant: an accepted count does not store its author
AcceptedEntryNoAuthor(entry, msg) == [entry EXCEPT !.current_number = msg.number]

\* the two field assignments of an accepted count
AcceptedEntrySkipping(entry, msg) ==
    [entry EXCEPT !.current_number = msg.number + 1, !.last_user_id = msg.author]

AcceptedEntry(entry, msg) ==
    [entry EXCEPT !.current_number = msg.number, !.last_user_id = msg.author]

\* counting_data[gid] = entry
AssignToAll(data, gid, entry) ==
    [g \in DOMAIN data \cup {gid} |-> entry]

Assign(data, gid, entry) ==
    IF gid \in DOMAIN data THEN [data EXCEPT ![gid] = entry] ELSE data @@ (gid :> entry)

\* the reply that follows the reaction of an accepted count (companion)
Milestone(number) ==
    IF number % 100 = 0 THEN "huge"
    ELSE IF number % 50 = 0 THEN "great"
    ELSE IF number % 10 = 0 THEN "nice"
    ELSE IF number <= 5 THEN "next"
    ELSE "none"

\* mutant: the writes of a successful submission come after the await
handle_counting_message_deferred(data, msg) ==
    LET gid == msg.guild IN
    IF gid \notin DOMAIN data
    THEN [data |-> data,
          outcome |-> IF StartsGame(msg.number) THEN [kind |-> "Started"]
                      ELSE [kind |-> "RejectedNotStartedAtOne"]]
    ELSE IF IsDoublePost(data[gid], msg)
         THEN [data |-> data, outcome |-> [kind |-> "RejectedDoublePost"]]
         ELSE IF IsWrongNumber(data[gid], msg)
              THEN [data |-> data,
                    outcome |-> [kind |-> "RejectedWrongNumber",
                                 expected |-> data[gid].current_number + 1,
                                 got |-> msg.number]]
              ELSE [data |-> data,
                    outcome |-> [kind |-> "Accepted", number |-> msg.number]]

\* handle_counting_message from the parsed number up to its first await: the
\* outcome it decides (the reply it is about to send) and the game data it leaves
handle_counting_message(data, msg) ==
    LET gid == msg.guild IN
    IF gid \notin DOMAIN data
    THEN IF StartsGame(msg.number)
         THEN [data |-> Assign(data, gid, StartedEntry(msg)),
               outcome |-> [kind |-> "Started"]]
         ELSE [data |-> data, outcome |-> [kind |-> "RejectedNotStartedAtOne"]]
    ELSE IF IsDoublePost(data[gid], msg)
         THEN [data |-> data, outcome |-> [kind |-> "RejectedDoublePost"]]
         ELSE IF IsWrongNumber(data[gid], msg)
              THEN [data |-> data,
                    outcome |-> [kind |-> "RejectedWrongNumber",
                                 expected |-> data[gid].current_number + 1,
                                 got |-> msg.number]]
              ELSE [data |-> Assign(data, gid, AcceptedEntry(data[gid], msg)),
                    outcome |-> [kind |-> "Accepted", number |-> msg.number]]

\* the gateway calls handle_counting_message awaits after deciding, in order;
\* the reply to an accepted number is named by the text it carries
CountingAwaits(v, outcome) ==
    IF v = "ticket"
    THEN IF outcome.kind = "Accepted" THEN <<"add_reaction">> ELSE <<"reply">>
    ELSE IF outcome.kind = "Accepted"
         THEN IF Milestone(outcome.number) = "none"
              THEN <<"add_reaction">>
              ELSE <<"add_reaction", Milestone(outcome.number)>>
         ELSE <<"add_reaction", "reply">>

\* mutant: the reset deletes the guild's entry
AfterCountingAwaitsDeleting(data, task) ==
    IF task.outcome.kind = "RejectedWrongNumber"
    THEN [g \in DOMAIN data \ {task.msg.guild} |-> data[g]]
    ELSE data

\* the statement that follows the last await of handle_counting_message
AfterCountingAwaits(data, task) ==
    IF task.outcome.kind = "RejectedWrongNumber"
    THEN Assign(data, task.msg.guild, ResetEntry(task.msg))
    ELSE data

\* mutant: the command lets an actor count twice in a row
count_command_twice_in_a_row(data, msg) ==
    LET gid == msg.guild IN
    IF gid \notin DOMAIN data
    THEN IF msg.number = 1
         THEN [data |-> Assign(data, gid,
                          [current_number |-> 1, last_user_id |-> msg.author,
                           channel_id |-> msg.channel]),
               outcome |-> [kind |-> "Started"]]
         ELSE [data |-> data, outcome |-> [kind |-> "RejectedNotStartedAtOne"]]
    ELSE LET curr == data[gid]
             expected == curr.current_number + 1
         IN IF msg.number # expected
            THEN [data |-> data,
                  outcome |-> [kind |-> "RejectedWrongNumber",
                               expected |-> expected, got |-> msg.number]]
            ELSE [data |-> Assign(data, gid,
                             [curr EXCEPT !.current_number = msg.number,
                                          !.last_user_id = msg.author]),
                  outcome |-> [kind |-> "Accepted", number |-> msg.number]]

\* str.isdigit() of the decimal text of the integer n: a sign is not a digit
IsDigitText(n) == n >= 0

\* on_message for a plain message whose text is the decimal text of
\* msg.number: only a digit-only text goes to handle_counting_message
PlainMessage(data, msg) ==
    IF IsDigitText(msg.number)
    THEN handle_counting_message(data, msg)
    ELSE [data |-> data, outcome |-> [kind |-> "NotASubmission"]]

\* count_command with a number, up to its await of ctx.send: the same game
\* played through "!count <number>" (companion only)
count_command(data, msg) ==
    LET gid == msg.guild IN
    IF gid \notin DOMAIN data
    THEN IF msg.number = 1
         THEN [data |-> Assign(data, gid,
                          [current_number |-> 1, last_user_id |-> msg.author,
                           channel_id |-> msg.channel]),
               outcome |-> [kind |-> "Started"]]
         ELSE [data |-> data, outcome |-> [kind |-> "RejectedNotStartedAtOne"]]
    ELSE LET curr == data[gid]
             expected == curr.current_number + 1
         IN IF curr.last_user_id = msg.author
            THEN [data |-> data, outcome |-> [kind |-> "RejectedDoublePost"]]
            ELSE IF msg.number # expected
                 THEN [data |-> data,
                       outcome |-> [kind |-> "RejectedWrongNumber",
                                    expected |-> expected, got |-> msg.number]]
                 ELSE [data |-> Assign(data, gid,
                                  [curr EXCEPT !.current_number = msg.number,
                                               !.last_user_id = msg.author]),
                       outcome |-> [kind |-> "Accepted", number |-> msg.number]]

\* mutant: the command resets the entry in place, as a wrong number does
reset_count_command_in_place(data, msg) ==
    LET gid == msg.guild IN
    IF gid \in DOMAIN data
    THEN [data |-> Assign(data, gid,
                     [current_number |-> 0, last_user_id |-> NoUser,
                      channel_id |-> msg.channel]),
          outcome |-> [kind |-> "Reset"]]
    ELSE [data |-> data, outcome |-> [kind |-> "NothingToReset"]]

\* reset_count_command up to its await of ctx.send
reset_count_command(data, msg) ==
    LET gid == msg.guild IN
    IF gid \in DOMAIN data
    THEN [data |-> [g \in DOMAIN data \ {gid} |-> data[g]],
          outcome |-> [kind |-> "Reset"]]
    ELSE [data |-> data, outcome |-> [kind |-> "NothingToReset"]]

\* --------------------------------------------------------- handlers in flight
NoMsg == [author |-> NoUser, guild |-> NoGuild, channel |-> 0, kind |-> "none",
          number |-> 0, addressed |-> FALSE]

IdleTask == [status |-> "idle", msg |-> NoMsg, stage |-> "none",
             outcome |-> [kind |-> "none"], awaits |-> <<>>, fault |-> FALSE]

\* a handler that returned (or that an exception left): its frame is gone
DoneTask(fault) == [IdleTask EXCEPT !.status = "done", !.fault = fault]

\* messages whose stripped text is all digits
DigitMessages ==
    [author : Actors, guild : Guilds, channel : Channels,
     kind : {"digits"}, number : Numbers, addressed : {FALSE}]

\* digit-only messages of two guilds, written in one channel: the first
\* numbers of a game in one guild, the start of a game in the other
TwoGuildDigits ==
    [author : Actors, guild : Guilds, channel : {1},
     kind : {"digits"}, number : {1, 2}, addressed : {FALSE}]
    \cup
    [author : Chatters, guild : OtherGuilds, channel : {1},
     kind : {"digits"}, number : {1}, addressed : {FALSE}]

\* digit-only messages sent to the bot as direct messages: message.guild is
\* None, the channel is the author's own
DirectDigits ==
    {[author |-> a, guild |-> NoGuild, channel |-> a, kind |-> "digits",
      number |-> n, addressed |-> FALSE] : a \in Actors, n \in Numbers}

\* messages whose stripped text passes str.isdigit() and holds a character
\* int() refuses (a superscript or circled digit), in a guild or in a direct
\* message
DigitLikeMessages ==
    [author : Actors, guild : Guilds \cup {NoGuild}, channel : {1},
     kind : {"digit_like"}, number : {0}, addressed : {FALSE}]

\* "!count <number>": the converter int() takes a sign
CountCommands ==
    [author : Actors, guild : Guilds, channel : {1},
     kind : {"count_cmd"}, number : Numbers \cup {-1}, addressed : {FALSE}]

\* "!reset_count"
ResetCountCommands ==
    [author : Actors, guild : Guilds, channel : {1},
     kind : {"reset_count_cmd"}, number : {0}, addressed : {FALSE}]

\* other text, addressed to the bot (a mention or a direct message) or not
TextMessages ==
    [author : Chatters, guild : Guilds, channel : {1},
     kind : {"text"}, number : {0}, addressed : BOOLEAN]

\* text that mentions the bot, from any actor
ActorTexts ==
    [author : Actors, guild : Guilds, channel : {1},
     kind : {"text"}, number : {0}, addressed : {TRUE}]

\* "!chat <text>", possibly also a mention or a direct message
ChatCommands ==
    [author : Chatters, guild : Guilds, channel : {1},
     kind : {"chat_cmd"}, number : {0}, addressed : BOOLEAN]

\* the reply of the chat paths: after a limited check one send, else typing and send
ChatAwaits(limited) == IF limited THEN <<"reply">> ELSE <<"typing", "reply">>

\* a caller of is_rate_limited, from the call to its first await; admitted is
\* the history of the calls that returned False, per actor
RateCheck(t, m, stage) ==
    LET r == is_rate_limited(user_rate_limits, m.author, now) IN
    /\ user_rate_limits' = r.log
    /\ admitted' = IF r.limited THEN admitted
                   ELSE [admitted EXCEPT ![m.author] = Append(@, now)]
    /\ tasks' = [tasks EXCEPT ![t] =
          [status |-> "awaiting", msg |-> m, stage |-> stage,
           outcome |-> [kind |-> IF r.limited THEN "limited" ELSE "admitted"],
           awaits |-> ChatAwaits(r.limited), fault |-> FALSE]]

\* hist after the decision on message m: the author of the guild's last
\* successful submission, and whether a reset was written since
Succeeded(h, m, outcome) ==
    IF outcome.kind \in {"Started", "Accepted"}
    THEN [h EXCEPT !.winner[m.guild] = m.author, !.reset[m.guild] = FALSE]
    ELSE h

\* on_message hands a digit-only message m to handle_counting_message, which
\* runs to its first await
Deliver(t, m) ==
    /\ tasks[t].status = "idle"
    /\ IF variant = "ticket" /\ m.guild = NoGuild
       THEN \* ticket: message.guild is None and message.guild.id raises
            /\ tasks' = [tasks EXCEPT ![t] = [DoneTask(TRUE) EXCEPT !.msg = m]]
            /\ UNCHANGED <<counting_data, hist>>
       ELSE LET r == handle_counting_message(counting_data, m) IN
            /\ counting_data' = r.data
            /\ hist' = Succeeded(hist, m, r.outcome)
            /\ tasks' = [tasks EXCEPT ![t] =
                   [status |-> "awaiting", msg |-> m, stage |-> "counting",
                    outcome |-> r.outcome,
                    awaits |-> CountingAwaits(variant, r.outcome), fault |-> FALSE]]
    /\ UNCHANGED <<variant, now, user_rate_limits, admitted>>

\* on_message for a digit-only message
ReceiveDigits(t, m) ==
    /\ m \in DigitMessages
    /\ Deliver(t, m)
    /\ UNCHANGED script

\* on_message for a digit-only message of one of two guilds
ReceiveGuildDigits(t, m) ==
    /\ m \in TwoGuildDigits
    /\ Deliver(t, m)
    /\ UNCHANGED script

\* on_message for a digit-only direct message
ReceiveDirectDigits(t, m) ==
    /\ m \in DirectDigits
    /\ Deliver(t, m)
    /\ UNCHANGED script

\* mutant: the ValueError of int() is not caught
ParseFailedUncaught(m) == [DoneTask(TRUE) EXCEPT !.msg = m]

\* handle_counting_message when int() raises ValueError: the except clause
\* ends the handler, on_message returns
ParseFailed(m) == [DoneTask(FALSE) EXCEPT !.msg = m]

\* on_message for a digit-only message that int() cannot parse
ReceiveDigitLike(t, m) ==
    /\ tasks[t].status = "idle"
    /\ m \in DigitLikeMessages
    /\ tasks' = [tasks EXCEPT ![t] = ParseFailed(m)]
    /\ UNCHANGED <<variant, now, user_rate_limits, counting_data, admitted,
                   hist, script>>

\* a command that ran to its await of ctx.send
CommandTask(m, stage, outcome) ==
    [status |-> "awaiting", msg |-> m, stage |-> stage, outcome |-> outcome,
     awaits |-> <<"send">>, fault |-> FALSE]

\* on_message for "!count <number>": process_commands runs count_command; the
\* ticket bot has no such command, the framework reports CommandNotFound and
\* on_message returns at the prefix test
ReceiveCount(t, m) ==
    /\ tasks[t].status = "idle"
    /\ m \in CountCommands
    /\ IF variant = "ticket"
       THEN /\ tasks' = [tasks EXCEPT ![t] = DoneTask(FALSE)]
            /\ UNCHANGED <<counting_data, hist>>
       ELSE LET r == count_command(counting_data, m) IN
            /\ counting_data' = r.data
            /\ hist' = Succeeded(hist, m, r.outcome)
            /\ tasks' = [tasks EXCEPT ![t] = CommandTask(m, "count", r.outcome)]
    /\ UNCHANGED <<variant, now, user_rate_limits, admitted, script>>

\* on_message for "!reset_count"
ReceiveResetCount(t, m) ==
    /\ tasks[t].status = "idle"
    /\ m \in ResetCountCommands
    /\ IF variant = "ticket"
       THEN /\ tasks' = [tasks EXCEPT ![t] = DoneTask(FALSE)]
            /\ UNCHANGED <<counting_data, hist>>
       ELSE LET r == reset_count_command(counting_data, m) IN
            /\ counting_data' = r.data
            /\ hist' = IF r.outcome.kind = "Reset"
                       THEN [hist EXCEPT !.reset[m.guild] = TRUE] ELSE hist
            /\ tasks' = [tasks EXCEPT ![t] =
                   CommandTask(m, "reset_count", r.outcome)]
    /\ UNCHANGED <<variant, now, user_rate_limits, admitted, script>>

\* on_message for other text
ReceiveText(t, m) ==
    /\ tasks[t].status = "idle"
    /\ m \in TextMessages
    /\ IF m.addressed
       THEN RateCheck(t, m, "chat")
       ELSE /\ tasks' = [tasks EXCEPT ![t] = DoneTask(FALSE)]
            /\ UNCHANGED <<user_rate_limits, admitted>>
    /\ UNCHANGED <<variant, now, counting_data, hist, script>>

\* on_message for a text of any actor that mentions the bot
ReceiveActorText(t, m) ==
    /\ tasks[t].status = "idle"
    /\ m \in ActorTexts
    /\ RateCheck(t, m, "chat")
    /\ UNCHANGED <<variant, now, counting_data, hist, script>>

\* on_message for "!chat <text>": process_commands runs chat_command
ReceiveChatCommand(t, m) ==
    /\ tasks[t].status = "idle"
    /\ m \in ChatCommands
    /\ RateCheck(t, m, "command")
    /\ UNCHANGED <<variant, now, counting_data, hist, script>>

\* on_message after process_commands has returned from a command
AfterCommand(t, fault) ==
    IF variant = "companion" /\ tasks[t].msg.addressed
    THEN RateCheck(t, tasks[t].msg, "chat")
    ELSE /\ tasks' = [tasks EXCEPT ![t] = DoneTask(fault)]
         /\ UNCHANGED <<user_rate_limits, admitted>>

\* hist after the last await of the handler of task returned
WasReset(h, task) ==
    IF task.stage \in {"counting", "count"}
       /\ task.outcome.kind = "RejectedWrongNumber"
    THEN [h EXCEPT !.reset[task.msg.guild] = TRUE]
    ELSE h

\* an awaited gateway call returns; after the last one the handler runs on
GatewayReturn(t) ==
    /\ tasks[t].status = "awaiting"
    /\ IF Len(tasks[t].awaits) > 1
       THEN /\ tasks' = [tasks EXCEPT ![t].awaits = Tail(@)]
            /\ UNCHANGED <<user_rate_limits, counting_data, admitted, hist>>
       ELSE IF tasks[t].stage = "command"
            THEN /\ AfterCommand(t, tasks[t].fault)
                 /\ UNCHANGED <<counting_data, hist>>
            ELSE /\ counting_data' = AfterCountingAwaits(counting_data, tasks[t])
                 /\ hist' = WasReset(hist, tasks[t])
                 /\ tasks' = [tasks EXCEPT ![t] = DoneTask(tasks[t].fault)]
                 /\ UNCHANGED <<user_rate_limits, admitted>>
    /\ UNCHANGED <<variant, now, script>>

\* an awaited gateway call raises: the exception leaves the handler, except
\* that the command framework catches what a command raises
GatewayRaise(t) ==
    /\ tasks[t].status = "awaiting"
    /\ IF tasks[t].stage = "command"
       THEN AfterCommand(t, TRUE)
       ELSE /\ tasks' = [tasks EXCEPT ![t] = DoneTask(TRUE)]
            /\ UNCHANGED <<user_rate_limits, admitted>>
    /\ UNCHANGED <<variant, now, counting_data, hist, script>>

\* the coroutine of a handler that is over goes away
Finish(t) ==
    /\ tasks[t].status = "done"
    /\ tasks' = [tasks EXCEPT ![t] = IdleTask]
    /\ UNCHANGED <<variant, now, user_rate_limits, counting_data, admitted, hist>>

\* the handler's task is over
Retire(t) ==
    /\ Finish(t)
    /\ UNCHANGED script

\* datetime.now() moves on (a clock that never goes back)
Tick ==
    /\ now + TickSize <= MaxTicks * TickSize
    /\ now' = now + TickSize
    /\ UNCHANGED <<variant, user_rate_limits, counting_data, tasks, admitted,
                   hist, script>>

\* the end-to-end sequence of the counting game: nothing sent yet
NoScript == [a |-> NoUser, b |-> NoUser, guild |-> NoGuild, outcomes |-> <<>>,
             raised |-> {}]

Init ==
    /\ variant \in Variants
    /\ now = 0
    /\ user_rate_limits = <<>>
    /\ counting_data = <<>>
    /\ tasks = [t \in Tasks |-> IdleTask]
    /\ admitted = [a \in Actors |-> <<>>]
    /\ hist = [winner |-> [g \in Guilds \cup OtherGuilds \cup {NoGuild} |-> NoUser],
               reset |-> [g \in Guilds \cup OtherGuilds \cup {NoGuild} |-> FALSE]]
    /\ script = NoScript

\* the counting game alone: digit-only messages of the guilds, handled
\* concurrently
NextGame ==
    \/ \E t \in Tasks, m \in DigitMessages : ReceiveDigits(t, m)
    \/ \E t \in Tasks : GatewayReturn(t)
    \/ \E t \in Tasks : GatewayRaise(t)
    \/ \E t \in Tasks : Retire(t)

SpecGame == Init /\ [][NextGame]_vars

\* the rate limiter and its callers alone: addressed messages and chat
\* commands of the chatting actors, handled concurrently while time passes
NextLimiter ==
    \/ \E t \in Tasks, m \in TextMessages : ReceiveText(t, m)
    \/ \E t \in Tasks, m \in ChatCommands : ReceiveChatCommand(t, m)
    \/ \E t \in Tasks : GatewayReturn(t)
    \/ \E t \in Tasks : GatewayRaise(t)
    \/ \E t \in Tasks : Retire(t)
    \/ Tick

SpecLimiter == Init /\ [][NextLimiter]_vars

\* the counting games of two guilds beside the chat of an actor
NextFrame ==
    \E t \in Tasks :
        \/ \E m \in TwoGuildDigits : ReceiveGuildDigits(t, m)
        \/ \E m \in TextMessages : ReceiveText(t, m)
        \/ GatewayReturn(t)
        \/ GatewayRaise(t)
        \/ Retire(t)

SpecFrame == Init /\ [][NextFrame]_vars

\* the digit-only messages that start a game in the channel of the chat
StartDigits ==
    {m \in DigitMessages : m.channel = 1 /\ m.number = 1 /\ m.author \in Chatters}

\* the chat of several actors beside a counting game, at one time of the clock
NextActors ==
    \E t \in Tasks :
        \/ \E m \in ActorTexts : ReceiveActorText(t, m)
        \/ \E m \in StartDigits : ReceiveDigits(t, m)
        \/ GatewayReturn(t)
        \/ GatewayRaise(t)
        \/ Retire(t)

SpecActors == Init /\ [][NextActors]_vars

\* digit-only direct messages alone, handled concurrently
NextDirect ==
    \E t \in Tasks :
        \/ \E m \in DirectDigits : ReceiveDirectDigits(t, m)
        \/ GatewayReturn(t)
        \/ GatewayRaise(t)
        \/ Retire(t)

SpecDirect == Init /\ [][NextDirect]_vars

\* the digit-only messages written in the channel of the commands
CommandChannelDigits == {m \in DigitMessages : m.channel = 1}

\* the counting game with texts that pass the digit test: numbers, and
\* digits that int() refuses
NextParse ==
    \E t \in Tasks :
        \/ \E m \in CommandChannelDigits : ReceiveDigits(t, m)
        \/ \E m \in DigitLikeMessages : ReceiveDigitLike(t, m)
        \/ GatewayReturn(t)
        \/ GatewayRaise(t)
        \/ Retire(t)

SpecParse == Init /\ [][NextParse]_vars

NextCommands ==
    \E t \in Tasks :
        \/ \E m \in CommandChannelDigits : ReceiveDigits(t, m)
        \/ \E m \in CountCommands : ReceiveCount(t, m)
        \/ \E m \in ResetCountCommands : ReceiveResetCount(t, m)
        \/ GatewayReturn(t)
        \/ GatewayRaise(t)
        \/ Retire(t)

SpecCommands == Init /\ [][NextCommands]_vars

\* a long game: every message is the number the game expects next (1 when the
\* guild has no game), from any actor, handled one after another
NextCountMessages ==
    {m \in [author : Actors, guild : Guilds, channel : {1}, kind : {"digits"},
            number : 1..MaxCount, addressed : {FALSE}] :
        m.number = IF m.guild \in DOMAIN counting_data
                   THEN counting_data[m.guild].current_number + 1
                   ELSE 1}

ReceiveNextCount(t) ==
    /\ \A u \in Tasks : tasks[u].status = "idle"
    /\ \E m \in NextCountMessages : Deliver(t, m)
    /\ UNCHANGED script

NextLongGame ==
    \E t \in Tasks :
        \/ ReceiveNextCount(t)
        \/ GatewayReturn(t)
        \/ GatewayRaise(t)
        \/ Retire(t)

SpecLongGame == Init /\ [][NextLongGame]_vars

\* the texts of the end-to-end sequence, sent by two actors a and b
ScriptSteps(a, b) ==
    << [author |-> a, number |-> 1], [author |-> a, number |-> 2],
       [author |-> b, number |-> 2], [author |-> b, number |-> 3],
       [author |-> a, number |-> 4], [author |-> a, number |-> 1] >>

ScriptLength == Len(ScriptSteps(NoUser, NoUser))

\* the next message of the sequence arrives when no handler is running: the
\* messages are handled one after another, written in any channel
ScriptSubmit(t) ==
    /\ \A u \in Tasks : tasks[u].status = "idle"
    /\ Len(script.outcomes) < ScriptLength
    /\ \E a \in Actors, b \in Actors, g \in Guilds, c \in Channels :
          /\ a # b
          /\ script.outcomes # <<>> =>
                a = script.a /\ b = script.b /\ g = script.guild
          /\ LET step == ScriptSteps(a, b)[Len(script.outcomes) + 1]
                 m == [author |-> step.author, guild |-> g, channel |-> c,
                       kind |-> "digits", number |-> step.number,
                       addressed |-> FALSE]
             IN /\ Deliver(t, m)
                /\ script' = [script EXCEPT
                       !.a = a, !.b = b, !.guild = g,
                       !.outcomes = Append(@,
                           handle_counting_message(counting_data, m).outcome)]

\* the handler of the last message of the sequence is over; a handler that
\* ended in an exception of a gateway call is remembered by its position
ScriptRetire(t) ==
    /\ Finish(t)
    /\ script' = [script EXCEPT !.raised =
           IF tasks[t].fault THEN @ \cup {Len(script.outcomes)} ELSE @]

NextScript ==
    \E t \in Tasks :
        \/ ScriptSubmit(t)
        \/ GatewayReturn(t)
        \/ GatewayRaise(t)
        \/ ScriptRetire(t)

SpecScript == Init /\ [][NextScript]_vars

Next == NextGame \/ NextLimiter

Spec == Init /\ [][Next]_vars

\* ------------------------------------------------------------------- claims
\* the step in which the handler of task t calls is_rate_limited
Checks(t) ==
    /\ tasks'[t].status = "awaiting"
    /\ tasks'[t].stage \in {"chat", "command"}
    /\ \/ tasks[t].status = "idle"
       \/ tasks[t].stage = "command" /\ tasks'[t].stage = "chat"

\* how many of the timestamps of q are less than the window old at time t
FreshCount(q, t) == Cardinality({i \in DOMAIN q : t - q[i] < RATE_LIMIT_WINDOW})

\* the timestamps of q that are less than the window old at time t, in order
FreshPart(q, t) == SelectSeq(q, LAMBDA ts : t - ts < RATE_LIMIT_WINDOW)

\* the earliest time from t on at which a queue q has room for another call
AdmitTime(q, t) ==
    CHOOSE T \in t..(t + RATE_LIMIT_WINDOW) :
        /\ FreshCount(q, T) < RATE_LIMIT_REQUESTS
        /\ \A U \in t..(T - 1) : FreshCount(q, U) >= RATE_LIMIT_REQUESTS

\* C1: a call of is_rate_limited made when RATE_LIMIT_REQUESTS admitted calls of
\* the actor are less than RATE_LIMIT_WINDOW old returns limited.
C1_LimitedAtQuota ==
    [][\A t \in Tasks : Checks(t) =>
          (FreshCount(admitted[tasks'[t].msg.author], now) >= RATE_LIMIT_REQUESTS
              => tasks'[t].outcome.kind = "limited")]_vars

C1_Witness ==
    \E t \in Tasks :
        /\ tasks[t].status = "awaiting"
        /\ tasks[t].outcome.kind = "limited"
        /\ FreshCount(admitted[tasks[t].msg.author], now) = RATE_LIMIT_REQUESTS

\* C2: a call of is_rate_limited made when the oldest timestamp recorded for the
\* actor is RATE_LIMIT_WINDOW or more old returns not-limited, however many calls
\* were rejected before it.
C2_RecoversWhenOldestStale ==
    [][\A t \in Tasks : Checks(t) =>
          LET a == tasks'[t].msg.author IN
          (/\ a \in DOMAIN user_rate_limits
           /\ Len(user_rate_limits[a]) > 0
           /\ now - user_rate_limits[a][1] >= RATE_LIMIT_WINDOW)
              => tasks'[t].outcome.kind = "admitted"]_vars

\* an actor rejected at full quota (the rejection's reply still pending) is
\* admitted for the eleventh time once the window has passed
C2_Witness ==
    \E t, u \in Tasks :
        /\ tasks[t].status = "awaiting" /\ tasks[t].outcome.kind = "limited"
        /\ tasks[u].status = "awaiting" /\ tasks[u].outcome.kind = "admitted"
        /\ tasks[u].msg.author = tasks[t].msg.author
        /\ Len(admitted[tasks[u].msg.author]) = RATE_LIMIT_REQUESTS + 1
        /\ user_rate_limits[tasks[u].msg.author] = <<now>>

\* C3: a call that returns limited appends nothing: the actor's queue after it is
\* the fresh part of the queue before it, the history of admitted calls is as it
\* was, and the time at which the actor is next admitted has not moved.
C3_RejectionRecordsNothing ==
    [][\A t \in Tasks : (Checks(t) /\ tasks'[t].outcome.kind = "limited") =>
          LET a == tasks'[t].msg.author IN
          /\ a \in DOMAIN user_rate_limits
          /\ user_rate_limits'[a] = FreshPart(user_rate_limits[a], now)
          /\ admitted' = admitted
          /\ AdmitTime(user_rate_limits'[a], now) = AdmitTime(user_rate_limits[a], now)]_vars

\* two rejected calls of one actor in a row, the queue still at the quota
C3_Witness ==
    \E t, u \in Tasks :
        /\ t # u
        /\ tasks[t].status = "awaiting" /\ tasks[t].outcome.kind = "limited"
        /\ tasks[u].status = "awaiting" /\ tasks[u].outcome.kind = "limited"
        /\ tasks[u].msg.author = tasks[t].msg.author
        /\ Len(user_rate_limits[tasks[t].msg.author]) = RATE_LIMIT_REQUESTS
        /\ now > 0

\* C4: no actor's queue in the rate-limit log is ever longer than
\* RATE_LIMIT_REQUESTS.
C4_QueueWithinQuota ==
    \A a \in DOMAIN user_rate_limits : Len(user_rate_limits[a]) <= RATE_LIMIT_REQUESTS

\* a full queue while a message handler and a chat command are both in flight
C4_Witness ==
    \E a \in DOMAIN user_rate_limits, t, u \in Tasks :
        /\ Len(user_rate_limits[a]) = RATE_LIMIT_REQUESTS
        /\ tasks[t].status = "awaiting" /\ tasks[t].stage = "chat"
        /\ tasks[u].status = "awaiting" /\ tasks[u].stage = "command"

\* the step in which the handler of task t takes a digit-only message and decides
Submits(t) ==
    /\ tasks[t].status = "idle"
    /\ tasks'[t].status = "awaiting"
    /\ tasks'[t].stage = "counting"

\* a later step of the handler of task t, whose decision was outcome kind k
Continues(t, k) ==
    /\ tasks[t].status = "awaiting"
    /\ tasks[t].stage = "counting"
    /\ tasks[t].outcome.kind = k
    /\ tasks'[t] # tasks[t]

\* C5: in a guild with no game entry a submission of 1 yields Started and
\* creates the entry with current_number 1 and the author as last_user_id.
C5_OneStartsGame ==
    [][\A t \in Tasks : Submits(t) =>
          LET m == tasks'[t].msg IN
          (m.guild \notin DOMAIN counting_data /\ m.number = 1) =>
              /\ tasks'[t].outcome = [kind |-> "Started"]
              /\ m.guild \in DOMAIN counting_data'
              /\ counting_data'[m.guild].current_number = 1
              /\ counting_data'[m.guild].last_user_id = m.author]_vars

C5_Witness ==
    \E t \in Tasks :
        /\ tasks[t].status = "awaiting"
        /\ tasks[t].outcome = [kind |-> "Started"]
        /\ tasks[t].msg.guild \in DOMAIN counting_data
        /\ counting_data[tasks[t].msg.guild].current_number = 1
        /\ counting_data[tasks[t].msg.guild].last_user_id = tasks[t].msg.author

\* C6: in a guild with no game entry a submission of a number other than 1
\* yields RejectedNotStartedAtOne, and neither the decision nor the rest of the
\* handler changes the game data: no entry is created.
C6_NotStartedMutatesNothing ==
    [][\A t \in Tasks :
          /\ Submits(t) =>
                LET m == tasks'[t].msg IN
                (m.guild \notin DOMAIN counting_data /\ m.number # 1) =>
                    /\ tasks'[t].outcome = [kind |-> "RejectedNotStartedAtOne"]
                    /\ counting_data' = counting_data
          /\ Continues(t, "RejectedNotStartedAtOne") => counting_data' = counting_data]_vars

C6_Witness ==
    \E t \in Tasks :
        /\ tasks[t].status = "awaiting"
        /\ tasks[t].outcome = [kind |-> "RejectedNotStartedAtOne"]
        /\ tasks[t].msg.number > 1
        /\ tasks[t].msg.guild \notin DOMAIN counting_data

\* C7: in a guild with a game entry a submission of current_number + 1 by an
\* actor other than last_user_id yields Accepted(number) and stores the number
\* as current_number and the author as last_user_id.
C7_NextNumberAccepted ==
    [][\A t \in Tasks : Submits(t) =>
          LET m == tasks'[t].msg IN
          (/\ m.guild \in DOMAIN counting_data
           /\ m.number = counting_data[m.guild].current_number + 1
           /\ m.author # counting_data[m.guild].last_user_id) =>
              /\ tasks'[t].outcome = [kind |-> "Accepted", number |-> m.number]
              /\ counting_data'[m.guild].current_number = m.number
              /\ counting_data'[m.guild].last_user_id = m.author]_vars

C7_Witness ==
    \E t \in Tasks :
        /\ tasks[t].status = "awaiting"
        /\ tasks[t].outcome = [kind |-> "Accepted", number |-> 3]
        /\ counting_data[tasks[t].msg.guild].current_number = 3
        /\ counting_data[tasks[t].msg.guild].last_user_id = tasks[t].msg.author

\* C8: in a guild with a game entry a submission by last_user_id yields
\* RejectedDoublePost whatever its number, and neither the decision nor the rest
\* of the handler changes the game data.
C8_DoublePostLeavesState ==
    [][\A t \in Tasks :
          /\ Submits(t) =>
                LET m == tasks'[t].msg IN
                (/\ m.guild \in DOMAIN counting_data
                 /\ m.author = counting_data[m.guild].last_user_id) =>
                    /\ tasks'[t].outcome = [kind |-> "RejectedDoublePost"]
                    /\ counting_data' = counting_data
          /\ Continues(t, "RejectedDoublePost") => counting_data' = counting_data]_vars

\* the last author sends a wrong number and the count stands
C8_Witness ==
    \E t \in Tasks :
        /\ tasks[t].status = "awaiting"
        /\ tasks[t].outcome = [kind |-> "RejectedDoublePost"]
        /\ tasks[t].msg.guild \in DOMAIN counting_data
        /\ counting_data[tasks[t].msg.guild].last_user_id = tasks[t].msg.author
        /\ counting_data[tasks[t].msg.guild].current_number = 2
        /\ tasks[t].msg.number # 3

ScriptOutcomes ==
    << [kind |-> "Started"], [kind |-> "RejectedDoublePost"],
       [kind |-> "Accepted", number |-> 2], [kind |-> "RejectedDoublePost"],
       [kind |-> "RejectedWrongNumber", expected |-> 3, got |-> 4],
       [kind |-> "Accepted", number |-> 1] >>

Succeeds(t) ==
    Submits(t) /\ tasks'[t].outcome.kind \in {"Started", "Accepted"}

\* C12 as stated: of any two successive successful submissions (Started or
\* Accepted) of a guild the two authors differ, also when rejected submissions
\* or a reset lie between them.
C12_SuccessiveAuthorsDiffer ==
    [][\A t \in Tasks :
          Succeeds(t) =>
              hist.winner[tasks'[t].msg.guild] # tasks'[t].msg.author]_vars

\* C12 amended: of any two successive successful submissions of a guild with
\* no reset written between them the two authors differ, whatever rejected
\* submissions lie between them; after a reset the author of the last
\* successful submission may succeed again.
C12_SuccessiveAuthorsDifferUnlessReset ==
    [][\A t \in Tasks :
          Succeeds(t) =>
              \/ hist.winner[tasks'[t].msg.guild] # tasks'[t].msg.author
              \/ hist.reset[tasks'[t].msg.guild]]_vars

\* a second successful submission is in flight, after a rejected one of the
\* author of the first, and no reset was written
C12_Witness ==
    \E t \in Tasks, u \in Tasks :
        /\ tasks[t].status = "awaiting" /\ tasks[t].stage = "counting"
        /\ tasks[t].outcome.kind = "Accepted" /\ tasks[t].outcome.number = 2
        /\ tasks[u].status = "awaiting" /\ tasks[u].stage = "counting"
        /\ tasks[u].outcome.kind = "RejectedDoublePost"
        /\ tasks[u].msg.author # tasks[t].msg.author
        /\ tasks[u].msg.guild = tasks[t].msg.guild
        /\ hist.winner[tasks[t].msg.guild] = tasks[t].msg.author
        /\ ~hist.reset[tasks[t].msg.guild]

\* ---- the reset state ----

\* C13: in every reachable state, for every guild that has a game entry,
\* current_number = 0 implies last_user_id = none.
C13_ZeroHasNoAuthor ==
    \A g \in DOMAIN counting_data :
        counting_data[g].current_number = 0 =>
            counting_data[g].last_user_id = NoUser

\* a guild's entry was reset by a wrong number and the handler that reset it is over
C13_Witness ==
    /\ \E g \in DOMAIN counting_data :
          /\ counting_data[g].current_number = 0
          /\ hist.winner[g] # NoUser
          /\ hist.reset[g]
    /\ \A t \in Tasks : tasks[t].status = "idle"

\* ---- the wrong-number reset and the handlers running beside it ----

\* the handler of task t decided RejectedWrongNumber and has not reset yet
ResetPending(t) ==
    /\ tasks[t].status = "awaiting" /\ tasks[t].stage = "counting"
    /\ tasks[t].outcome.kind = "RejectedWrongNumber"

\* the handler of task t writes its reset
Resets(t) ==
    /\ ResetPending(t)
    /\ tasks'[t].status = "done" /\ ~tasks'[t].fault

\* C14: the RejectedWrongNumber decision and its reset are one atomic step:
\* no other submission for the same guild is processed between the decision
\* and the reset write, so a reset never overwrites a count that was accepted
\* after that decision.
C14_ResetAtomicWithDecision ==
    [][\A t \in Tasks :
          /\ ResetPending(t) =>
                \A u \in Tasks \ {t} :
                    Submits(u) => tasks'[u].msg.guild # tasks[t].msg.guild
          /\ Resets(t) =>
                counting_data[tasks[t].msg.guild].current_number + 1
                    = tasks[t].outcome.expected]_vars

\* ---- concurrent submissions ----

\* C15: two concurrent submissions for the same guild never both observe the
\* pre-update state: a successful submission is decided on the state of the
\* step that writes it, and from that step on the same number is accepted
\* from nobody, so of two concurrent submissions of the next number (or of
\* two concurrent 1 in a guild with no game) at most one succeeds.
C15_OneOfTwoSucceeds ==
    [][\A t \in Tasks :
          Succeeds(t) =>
              LET m == tasks'[t].msg IN
              /\ IF tasks'[t].outcome.kind = "Started"
                 THEN m.guild \notin DOMAIN counting_data
                 ELSE counting_data[m.guild].current_number + 1 = m.number
              /\ m.guild \in DOMAIN counting_data'
              /\ counting_data'[m.guild].current_number = m.number
              /\ \A m2 \in DigitMessages :
                    m2.guild = m.guild /\ m2.number = m.number =>
                        handle_counting_message(counting_data', m2).outcome.kind
                            \notin {"Started", "Accepted"}]_vars

\* two handlers are in flight for one guild with the same number from two
\* actors, neither of them the last actor: one was accepted, the other not
C15_Witness ==
    \E t \in Tasks, u \in Tasks :
        /\ tasks[t].status = "awaiting" /\ tasks[t].stage = "counting"
        /\ tasks[u].status = "awaiting" /\ tasks[u].stage = "counting"
        /\ tasks[t].msg.guild = tasks[u].msg.guild
        /\ tasks[t].msg.author # tasks[u].msg.author
        /\ tasks[t].msg.number = 1 /\ tasks[u].msg.number = 1
        /\ tasks[t].outcome = [kind |-> "Accepted", number |-> 1]
        /\ tasks[u].outcome =
              [kind |-> "RejectedWrongNumber", expected |-> 2, got |-> 1]

\* ---- a gateway call that fails ----

\* C16: a wrong-number submission resets the guild to current_number 0 and
\* last_user_id none also when the gateway call that renders the negative
\* acknowledgment (the reaction or the reply) fails.
C16_ResetDespiteGatewayFailure ==
    [][\A t \in Tasks :
          ResetPending(t) /\ tasks'[t].status = "done" =>
              LET g == tasks[t].msg.guild IN
              /\ counting_data'[g].current_number = 0
              /\ counting_data'[g].last_user_id = NoUser]_vars

\* ---- milestones ----

\* the milestone among the replies a handler is about to send
ShownMilestone(task) ==
    IF \E i \in 1..Len(task.awaits) : task.awaits[i] \in {"huge", "great", "nice"}
    THEN task.awaits[Len(task.awaits)]
    ELSE "none"

\* C17: the milestone shown for an accepted number is a function of the
\* number alone: divisible by 100 the huge milestone, otherwise divisible by
\* 50 the great one, otherwise divisible by 25 or by 10 the nice one,
\* otherwise none, whatever the guild and the actor.
C17_MilestoneByThresholds ==
    [][\A t \in Tasks :
          Submits(t) /\ tasks'[t].outcome.kind = "Accepted" =>
              LET n == tasks'[t].outcome.number IN
              ShownMilestone(tasks'[t]) =
                  IF n % 100 = 0 THEN "huge"
                  ELSE IF n % 50 = 0 THEN "great"
                  ELSE IF n % 25 = 0 \/ n % 10 = 0 THEN "nice"
                  ELSE "none"]_vars

\* ---- the channel of a message ----

\* what a decision leaves of a guild's game, the channel binding left out
CountAndAuthor(data, g) ==
    IF g \in DOMAIN data
    THEN <<data[g].current_number, data[g].last_user_id>>
    ELSE <<>>

\* C18: the outcome of a submission and the resulting current_number and
\* last_user_id do not depend on the channel of the message: the same message
\* written in any other channel gives the same outcome and the same two
\* fields, and a correct next number from an actor other than the last one is
\* accepted also in a channel different from the stored channel_id.
C18_ChannelIrrelevant ==
    [][\A t \in Tasks :
          Submits(t) =>
              LET m == tasks'[t].msg IN
              /\ \A c \in Channels :
                    LET r == handle_counting_message(counting_data,
                                                     [m EXCEPT !.channel = c])
                    IN /\ r.outcome = tasks'[t].outcome
                       /\ CountAndAuthor(r.data, m.guild)
                            = CountAndAuthor(counting_data', m.guild)
              /\ ( /\ m.guild \in DOMAIN counting_data
                   /\ m.channel # counting_data[m.guild].channel_id
                   /\ m.number = counting_data[m.guild].current_number + 1
                   /\ m.author # counting_data[m.guild].last_user_id )
                 => tasks'[t].outcome = [kind |-> "Accepted", number |-> m.number]
          ]_vars

\* a number was accepted from a channel that is not the stored one
C18_Witness ==
    \E t \in Tasks :
        /\ tasks[t].status = "awaiting" /\ tasks[t].stage = "counting"
        /\ tasks[t].outcome.kind = "Accepted"
        /\ counting_data[tasks[t].msg.guild].current_number = tasks[t].msg.number
        /\ counting_data[tasks[t].msg.guild].last_user_id = tasks[t].msg.author
        /\ counting_data[tasks[t].msg.guild].channel_id # tasks[t].msg.channel

\* C19: a wrong-number reset retains the game's channel binding: the guild's
\* channel_id after the reset equals its channel_id before the reset, also
\* when the offending message was sent in a different channel.
C19_ResetKeepsChannel ==
    [][\A t \in Tasks :
          Resets(t) =>
              counting_data'[tasks[t].msg.guild].channel_id
                  = counting_data[tasks[t].msg.guild].channel_id]_vars

\* ---- digits that are no number ----

\* C20: a submission whose text passes the digit check but cannot be parsed
\* as a base-10 integer is a silent no-op: the handler returns without a
\* fault, produces no outcome, awaits no gateway call and leaves every
\* guild's game state unchanged.
C20_UnparsableIsNoOp ==
    [][\A t \in Tasks :
          tasks[t].status = "idle" /\ tasks'[t].msg.kind = "digit_like" =>
              /\ tasks'[t].status = "done"
              /\ ~tasks'[t].fault
              /\ tasks'[t].outcome = [kind |-> "none"]
              /\ tasks'[t].awaits = <<>>
              /\ counting_data' = counting_data]_vars

\* such a message was handled while a game was running
C20_Witness ==
    \E t \in Tasks :
        /\ tasks[t].status = "done"
        /\ tasks[t].msg.kind = "digit_like"
        /\ tasks[t].msg.guild \in DOMAIN counting_data
        /\ counting_data[tasks[t].msg.guild].current_number = 2

\* ---- what a submission leaves alone ----

\* a step of the handler of a digit-only message in task t
CountingStep(t) ==
    /\ tasks'[t] # tasks[t]
    /\ \/ tasks'[t].stage = "counting"
       \/ tasks[t].stage = "counting" /\ tasks[t].status = "awaiting"

\* the guild of the message that the handler in task t is handling
CountingGuild(t) ==
    IF tasks[t].stage = "counting" THEN tasks[t].msg.guild ELSE tasks'[t].msg.guild

\* C21: a submission for guild g changes at most the game entry of g: in
\* every step of its handler the entries of all other guilds and the whole
\* rate-limit log stay as they were, so a digit-only message consumes no
\* rate-limit quota.
C21_SubmissionTouchesOneGuild ==
    [][\A t \in Tasks :
          CountingStep(t) =>
              /\ user_rate_limits' = user_rate_limits
              /\ \A g \in (DOMAIN counting_data \cup DOMAIN counting_data')
                            \ {CountingGuild(t)} :
                    /\ g \in DOMAIN counting_data
                    /\ g \in DOMAIN counting_data'
                    /\ counting_data'[g] = counting_data[g]]_vars

\* a submission was accepted in one guild while another guild has a game and
\* the rate-limit log holds a request
C21_Witness ==
    \E t \in Tasks :
        /\ tasks[t].status = "awaiting" /\ tasks[t].stage = "counting"
        /\ tasks[t].outcome.kind = "Accepted"
        /\ \E g \in DOMAIN counting_data \ {tasks[t].msg.guild} :
              counting_data[g].current_number = 1
        /\ \E a \in DOMAIN user_rate_limits : user_rate_limits[a] # <<>>

\* ---- pruning and the quota decision ----

\* C22: pruning precedes the quota decision: a call of is_rate_limited for an
\* actor returns limited exactly when the timestamps of the actor's queue
\* that are less than the window old are RATE_LIMIT_REQUESTS or more, and on
\* its return every timestamp of that queue is less than the window old and
\* the queue is in chronological order.
C22_PrunedBeforeDecision ==
    [][\A t \in Tasks :
          Checks(t) =>
              LET a == tasks'[t].msg.author
                  kept == FreshPart(Requests(user_rate_limits, a), now)
                  q == Requests(user_rate_limits', a)
              IN /\ (tasks'[t].outcome.kind = "limited")
                      <=> (Len(kept) >= RATE_LIMIT_REQUESTS)
                 /\ \A i \in DOMAIN q : now - q[i] < RATE_LIMIT_WINDOW
                 /\ \A i \in DOMAIN q, j \in DOMAIN q : i < j => q[i] <= q[j]
          ]_vars

\* a call was admitted after timestamps of its actor had gone stale and
\* were dropped from the queue
C22_Witness ==
    \E t \in Tasks :
        /\ tasks[t].status = "awaiting"
        /\ tasks[t].outcome.kind = "admitted"
        /\ now >= RATE_LIMIT_WINDOW
        /\ LET a == tasks[t].msg.author IN
           /\ a \in DOMAIN user_rate_limits
           /\ Len(user_rate_limits[a]) < Len(admitted[a])
           /\ user_rate_limits[a][Len(user_rate_limits[a])] = now

\* ---- what a rate check leaves alone ----

\* C23: is_rate_limited(a) changes at most the queue of actor a: the queues
\* of all other actors and every guild's counting state stay as they were,
\* and the call returns limited only when a's own queue holds
\* RATE_LIMIT_REQUESTS fresh timestamps, so an actor who exhausts the quota
\* never makes another actor limited.
C23_CheckTouchesOneActor ==
    [][\A t \in Tasks :
          Checks(t) =>
              LET a == tasks'[t].msg.author IN
              /\ \A b \in (DOMAIN user_rate_limits \cup DOMAIN user_rate_limits')
                            \ {a} :
                    /\ b \in DOMAIN user_rate_limits
                    /\ b \in DOMAIN user_rate_limits'
                    /\ user_rate_limits'[b] = user_rate_limits[b]
              /\ counting_data' = counting_data
              /\ tasks'[t].outcome.kind = "limited" =>
                    Len(FreshPart(Requests(user_rate_limits, a), now))
                        >= RATE_LIMIT_REQUESTS]_vars

\* a call of one actor was admitted while the queue of another actor is full
\* and a game is running
C23_Witness ==
    \E t \in Tasks :
        /\ tasks[t].status = "awaiting" /\ tasks[t].stage = "chat"
        /\ tasks[t].outcome.kind = "admitted"
        /\ \E b \in DOMAIN user_rate_limits \ {tasks[t].msg.author} :
              Len(user_rate_limits[b]) = RATE_LIMIT_REQUESTS
        /\ counting_data # <<>>

\* ---- the steps of the count ----

\* the count of a guild; a guild with no entry has counted nothing
Count(data, g) == IF g \in DOMAIN data THEN data[g].current_number ELSE 0

\* C24: in every reachable state each guild's current_number is >= 0, and
\* every step leaves a guild's count as it is or changes it to its old value
\* plus 1 (Started, from nothing to 1, or Accepted) or to 0 (a reset): the
\* count skips no value and decreases only by a reset.
C24_CountStepsByOne ==
    [][\A g \in DOMAIN counting_data \cup DOMAIN counting_data' :
          /\ Count(counting_data, g) >= 0
          /\ Count(counting_data', g) >= 0
          /\ \/ Count(counting_data', g) = Count(counting_data, g)
             \/ Count(counting_data', g) = Count(counting_data, g) + 1
             \/ Count(counting_data', g) = 0]_vars

\* a count that went up to the largest number of the messages
C24_Witness ==
    /\ \E g \in DOMAIN counting_data :
          /\ counting_data[g].current_number = MaxNumber
          /\ counting_data[g].last_user_id # NoUser
    /\ \A t \in Tasks : tasks[t].status = "idle"

\* ---- the quota over any window ----

\* the times at which a call of actor a was admitted
AdmittedTimes(a) == {admitted[a][i] : i \in DOMAIN admitted[a]}

\* the calls of actor a admitted in the interval [s, s + RATE_LIMIT_WINDOW)
AdmittedIn(a, s) ==
    {i \in DOMAIN admitted[a] :
        s <= admitted[a][i] /\ admitted[a][i] < s + RATE_LIMIT_WINDOW}

\* C25: for every actor and every half-open interval of time of length
\* RATE_LIMIT_WINDOW, at most RATE_LIMIT_REQUESTS calls of is_rate_limited
\* made for the actor inside the interval returned not limited, however the
\* handlers interleave.  An interval holds no more admitted calls than the
\* interval of the same length that starts at its first admitted call, so the
\* intervals that start at an admitted call decide the property for all.
C25_QuotaInEveryWindow ==
    \A a \in Actors : \A s \in AdmittedTimes(a) :
        Cardinality(AdmittedIn(a, s)) <= RATE_LIMIT_REQUESTS

\* an actor used the whole quota of one window and was admitted again later
C25_Witness ==
    \E a \in Actors :
        /\ Len(admitted[a]) > RATE_LIMIT_REQUESTS
        /\ Cardinality(AdmittedIn(a, 0)) = RATE_LIMIT_REQUESTS

\* ---- one check for one message ----

\* C26: handling one inbound message calls is_rate_limited at most once: the
\* handler of a message that has already been through the check does not
\* check it again, a "!chat" command that mentions the bot or comes as a
\* direct message included.
C26_OneCheckPerMessage ==
    [][\A t \in Tasks : Checks(t) => tasks[t].status = "idle"]_vars

\* ---- digits in a direct message ----

\* C27: a digit-only message that arrives outside any guild, as a direct
\* message, is handled without fault: handle_counting_message runs on from the
\* receipt of the message and no exception leaves the message handler.
C27_DirectDigitsHandled ==
    [][\A t \in Tasks :
          (/\ tasks[t].status = "idle"
           /\ tasks'[t].status # "idle"
           /\ tasks'[t].msg \in DirectDigits)
          => (tasks'[t].status = "awaiting" /\ ~tasks'[t].fault)]_vars

\* ---- the command and the plain message ----

\* the plain message with the text of the number of the command m
PlainOf(m) == [m EXCEPT !.kind = "digits"]

\* the handler of task t takes up a "!count <number>" command
CountsByCommand(t) ==
    /\ tasks[t].status = "idle"
    /\ tasks'[t].status = "awaiting"
    /\ tasks'[t].stage = "count"

\* the handler of task t, of a "!count <number>" command, comes back from its
\* await of ctx.send and runs to its end
CountCommandEnds(t) ==
    /\ tasks[t].status = "awaiting"
    /\ tasks[t].stage = "count"
    /\ tasks'[t].status = "done"
    /\ ~tasks'[t].fault

\* C28 as stated: "!count N" and a plain message with the text N do the same
\* to the game for every actor and every N: the same outcome and the same
\* counting state, at the decision and at the end of the handler.
C28_CountMatchesPlainText ==
    [][\A t \in Tasks :
          /\ CountsByCommand(t) =>
                LET r == PlainMessage(counting_data, PlainOf(tasks'[t].msg)) IN
                /\ tasks'[t].outcome = r.outcome
                /\ counting_data' = r.data
          /\ CountCommandEnds(t) =>
                counting_data' =
                    IF IsDigitText(tasks[t].msg.number)
                    THEN AfterCountingAwaits(counting_data,
                             [tasks[t] EXCEPT !.msg = PlainOf(@),
                                              !.stage = "counting"])
                    ELSE counting_data]_vars

\* C28 (amended): "!count N" and a plain message with the text N do the same
\* to the game for every actor and every N written with digits only: the same
\* outcome, with the same expected number when the number is wrong, and the
\* same counting state, at the decision and at the end of the handler.
C28_CountMatchesPlainDigits ==
    [][\A t \in Tasks :
          /\ (CountsByCommand(t) /\ IsDigitText(tasks'[t].msg.number)) =>
                LET r == handle_counting_message(counting_data,
                                                 PlainOf(tasks'[t].msg)) IN
                /\ tasks'[t].outcome = r.outcome
                /\ counting_data' = r.data
          /\ (CountCommandEnds(t) /\ IsDigitText(tasks[t].msg.number)) =>
                counting_data' =
                    AfterCountingAwaits(counting_data,
                        [tasks[t] EXCEPT !.msg = PlainOf(@),
                                         !.stage = "counting"])]_vars

\* a "!count 2" was accepted, and a "!count <number>" with a wrong number
\* ended with the reset of the game
C28_Witness ==
    /\ \E t \in Tasks :
          /\ tasks[t].status = "awaiting"
          /\ tasks[t].stage = "count"
          /\ tasks[t].outcome.kind = "Accepted"
          /\ tasks[t].msg.number = 2
    /\ \E g \in Guilds : hist.reset[g]

\* ---- the reset command ----

\* the handler of task t takes up a "!reset_count" command
ResetsByCommand(t) ==
    /\ tasks[t].status = "idle"
    /\ tasks'[t].status = "awaiting"
    /\ tasks'[t].stage = "reset_count"

\* C29: "!reset_count" on a guild that has a game entry deletes the entry and
\* leaves the other guilds alone; on the state it leaves, a digit-only message
\* of the guild is handled as in a guild that never had a game: a number
\* other than 1 is rejected as not started and creates no entry, a 1 of any
\* actor, the last one of the deleted game included, starts a new game at 1
\* with that actor as last actor.  On a guild with no entry the command
\* changes nothing.
C29_ResetCountForgetsGame ==
    [][\A t \in Tasks :
          ResetsByCommand(t) =>
              LET g == tasks'[t].msg.guild IN
              IF g \in DOMAIN counting_data
              THEN /\ tasks'[t].outcome.kind = "Reset"
                   /\ DOMAIN counting_data' = DOMAIN counting_data \ {g}
                   /\ \A h \in DOMAIN counting_data' :
                          counting_data'[h] = counting_data[h]
                   /\ \A m \in DigitMessages :
                          m.guild = g =>
                              LET r == handle_counting_message(counting_data', m) IN
                              IF m.number = 1
                              THEN /\ r.outcome.kind = "Started"
                                   /\ g \in DOMAIN r.data
                                   /\ r.data[g].current_number = 1
                                   /\ r.data[g].last_user_id = m.author
                              ELSE /\ r.outcome.kind = "RejectedNotStartedAtOne"
                                   /\ r.data = counting_data'
              ELSE /\ tasks'[t].outcome.kind = "NothingToReset"
                   /\ counting_data' = counting_data]_vars

\* a game that had a successful submission was deleted by "!reset_count", and
\* a second "!reset_count" found nothing to reset
C29_Witness ==
    \E t \in Tasks, u \in Tasks :
        /\ tasks[t].status = "awaiting" /\ tasks[t].stage = "reset_count"
        /\ tasks[t].outcome.kind = "Reset"
        /\ hist.winner[tasks[t].msg.guild] # NoUser
        /\ tasks[u].status = "awaiting" /\ tasks[u].stage = "reset_count"
        /\ tasks[u].outcome.kind = "NothingToReset"

====
